---- MODULE Spec2Model ----
(***************************************************************************)
(* Excel Analytics Platform: the REST handlers of backend/routes/files.js  *)
(* and backend/routes/charts.js over the File and Chart collections and    *)
(* the uploads directory.  Every handler is an async function: each await  *)
(* of a database operation is a scheduling point, so a handler is a        *)
(* sequence of atomic steps "database operation + the synchronous code     *)
(* that follows it up to the next await".  Array indices are 1-based here  *)
(* (JavaScript index i is i+1), and indexOf's -1 is 0.                     *)
(***************************************************************************)
EXTENDS Integers, Sequences, FiniteSets, Bags, TLC

\* ------------------------------------------------------------------ bounds
Users == {"u1", "u2"}
MaxInFlight == 2
MaxFiles == 2
MaxRequests == 3
MaxFaults == 1
MaxColumn == 3
ManyRows == 100

\* --------------------------------------------------- JavaScript cell values
Undefined == [t |-> "undefined", s |-> "", n |-> 0]
Num(k) == [t |-> "number", s |-> "", n |-> k]
Str(x) == [t |-> "string", s |-> x, n |-> 0]

\* row[i]: reading past the end of an array (or a hole) gives undefined
At(row, i) == IF i \in DOMAIN row THEN row[i] ELSE Undefined

\* the strings of the documents below that parse as a number
NumericStrings == [s \in {"7", " "} |-> IF s = "7" THEN 7 ELSE 0]

\* Number(val): a number, or NaN
Number(c) ==
  CASE c.t = "number" -> [nan |-> FALSE, n |-> c.n]
    [] c.t = "string" /\ c.s = "" -> [nan |-> FALSE, n |-> 0]
    [] c.t = "string" /\ c.s \in DOMAIN NumericStrings -> [nan |-> FALSE, n |-> NumericStrings[c.s]]
    [] c.t = "null" -> [nan |-> FALSE, n |-> 0]
    [] OTHER -> [nan |-> TRUE, n |-> 0]

\* Number(val) || 0: NaN and 0 are falsy, so the result is never NaN
NumberOrZero(c) ==
  LET r == Number(c) IN IF r.nan \/ r.n = 0 THEN [nan |-> FALSE, n |-> 0] ELSE r

\* String(val)
String(c) ==
  CASE c.t = "number" -> ToString(c.n)
    [] c.t = "string" -> c.s
    [] c.t = "null" -> "null"
    [] OTHER -> "undefined"

\* val !== null && val !== undefined && val !== ''
NotBlank(c) == ~(c.t \in {"undefined", "null"}) /\ ~(c.t = "string" /\ c.s = "")

Min(a, b) == IF a < b THEN a ELSE b

\* arr.slice(0, cap)
Slice(arr, cap) == SubSeq(arr, 1, Min(Len(arr), cap))

\* headers.indexOf(name): strict equality with a string
IndexOf(headers, name) ==
  LET hit == {i \in DOMAIN headers : headers[i].t = "string" /\ headers[i].s = name}
  IN IF hit = {} THEN 0 ELSE CHOOSE i \in hit : \A j \in hit : i <= j

\* -------------------------------------------------------- uploaded documents
XLSX_MIME == "application/vnd.openxmlformats-officedocument.spreadsheetml.sheet"
XLS_MIME == "application/vnd.ms-excel"
AllowedMimeTypes == {XLSX_MIME, XLS_MIME}

\* long sheets: ManyRows rows of one label and a running number, and ManyRows
\* rows of two running numbers
SheetDocuments == <<
  [originalName |-> "hundred.xlsx", mimetype |-> XLSX_MIME, corrupt |-> FALSE,
   json |-> << <<Str("City"), Str("Sales")>> >> \o [k \in 1..ManyRows |-> <<Str("c"), Num(k)>>]],
  [originalName |-> "series.xlsx", mimetype |-> XLSX_MIME, corrupt |-> FALSE,
   json |-> << <<Str("X"), Str("Y")>> >> \o [k \in 1..ManyRows |-> <<Num(k), Num(k)>>]]
>>

\* sheets with header [K, C, N] and MaxColumn data rows (k, "c", "7"): one
\* sheet for every column K over the cells below
Cells == <<Undefined, Str(""), Str(" "), Num(1), Str("7"), Str("x")>>

ColumnCell(k, i) == Cells[(((k - 1) \div (Len(Cells) ^ (i - 1))) % Len(Cells)) + 1]

ColumnDocuments ==
  [k \in 1..(Len(Cells) ^ MaxColumn) |->
     [originalName |-> "column.xlsx", mimetype |-> XLSX_MIME, corrupt |-> FALSE,
      json |-> << <<Str("K"), Str("C"), Str("N")>> >>
               \o [i \in 1..MaxColumn |-> <<ColumnCell(k, i), Str("c"), Str("7")>>]]]

\* a sheet whose header row is shorter than its data rows: only column A has a header cell
WideDocuments == <<
  [originalName |-> "wide.xlsx", mimetype |-> XLSX_MIME, corrupt |-> FALSE,
   json |-> << <<Str("A")>>, <<Num(1), Num(2)>>, <<Num(3), Num(4)>> >>] >>

\* Each document is what XLSX.readFile + sheet_to_json(sheet, {header: 1})
\* gives for its first sheet; readFile throws on a corrupt document.
Documents == <<
  [originalName |-> "empty.xlsx", mimetype |-> XLSX_MIME, corrupt |-> FALSE,
   json |-> << >>],
  [originalName |-> "header.xls", mimetype |-> XLS_MIME, corrupt |-> FALSE,
   json |-> << <<Str("City"), Str("Sales")>> >>],
  [originalName |-> "sales.xlsx", mimetype |-> XLSX_MIME, corrupt |-> FALSE,
   json |-> << <<Str("City"), Str("Sales")>>,
               <<Str("NY"), Num(100)>>, <<Str("LA"), Num(200)>>, <<Str("NY"), Num(50)>> >>],
  [originalName |-> "points.xlsx", mimetype |-> XLSX_MIME, corrupt |-> FALSE,
   json |-> << <<Str("X"), Str("Y")>>, <<Num(2), Num(10)>>, <<Num(1), Num(20)>> >>],
  [originalName |-> "gaps.xls", mimetype |-> XLS_MIME, corrupt |-> FALSE,
   json |-> << <<Str("A"), Str("B")>>, <<Undefined, Num(5)>> >>],
  [originalName |-> "blankrow.xls", mimetype |-> XLS_MIME, corrupt |-> FALSE,
   json |-> << <<Str("City"), Str("Sales")>>, << >> >>],
  [originalName |-> "corrupt.xls", mimetype |-> XLS_MIME, corrupt |-> TRUE,
   json |-> << >>],
  [originalName |-> "mixed.xlsx", mimetype |-> XLSX_MIME, corrupt |-> FALSE,
   json |-> << <<Str("K"), Str("V")>>,
               <<Num(1), Num(10)>>, <<Str("a"), Num(20)>>, <<Str("b"), Num(30)>> >>]
>> \o SheetDocuments \o ColumnDocuments \o WideDocuments

DocIds == DOMAIN Documents

\* ------------------------------------------------------------ chart records
NoTitle == <<>>

\* a check that passes a sheet of one row
NotEnoughDataEmptyOnly(json) == Len(json) < 1

\* json.length < 2
NotEnoughData(json) == Len(json) < 2

NonEmptyRow(row) == Len(row) > 0

\* json.slice(1).filter(row => row && row.length > 0)
DataRows(json) == SelectSeq(Tail(json), NonEmptyRow)

\* ------------------------------------------------ column classifier (autogen)
\* rows.map(row => row[index]).filter(not blank)
ColumnValues(rows, i) ==
  {k \in DOMAIN rows : NotBlank(At(rows[k], i))}

NumericCount(rows, i) ==
  Cardinality({k \in ColumnValues(rows, i) :
     At(rows[k], i).t = "number" \/ ~Number(At(rows[k], i)).nan})

StringCount(rows, i) ==
  Cardinality({k \in ColumnValues(rows, i) :
     At(rows[k], i).t = "string" /\ Number(At(rows[k], i)).nan})

\* a classifier that calls a tie numeric
ColumnTypeTieNumeric(rows, i) ==
  IF ColumnValues(rows, i) = {} THEN "empty"
  ELSE IF NumericCount(rows, i) >= StringCount(rows, i) THEN "numeric"
  ELSE "categorical"

ColumnType(rows, i) ==
  IF ColumnValues(rows, i) = {} THEN "empty"
  ELSE IF NumericCount(rows, i) > StringCount(rows, i) THEN "numeric"
  ELSE "categorical"

columnAnalysis(headers, rows) ==
  [i \in DOMAIN headers |-> [index |-> i, header |-> headers[i], type |-> ColumnType(rows, i)]]

\* the indices of the columns of a type, in column order
ColumnsOfType(analysis, type) == {i \in DOMAIN analysis : analysis[i].type = type}

First(S) == CHOOSE i \in S : \A j \in S : i <= j

\* ------------------------------------------------------------ data cleaning
AUTO_CAP == 20
MANUAL_CAP == 50

RawPairs(rows, xIdx, yIdx) ==
  [k \in DOMAIN rows |-> [x |-> At(rows[k], xIdx), y |-> NumberOrZero(At(rows[k], yIdx))]]

ValidPair(item) == NotBlank(item.x) /\ ~item.y.nan

cleanData(rows, xIdx, yIdx, cap) ==
  Slice(SelectSeq(RawPairs(rows, xIdx, yIdx), ValidPair), cap)

\* a check that lets an empty list through
NoValidDataPointsNever(clean) == FALSE

\* cleanData.length === 0
NoValidDataPoints(clean) == Len(clean) = 0

\* labels: cleanData.map(item => String(item.x)), data: cleanData.map(item => item.y)
PlainConfig(clean) ==
  [labels |-> [k \in DOMAIN clean |-> Str(String(clean[k].x))],
   data |-> [k \in DOMAIN clean |-> Num(clean[k].y.n)]]


\* ------------------------------------------- pie / doughnut aggregation
\* Object.keys order of acc: integer-like keys ascending, then the other
\* keys in insertion order.  A key is identified by the position of the
\* first cleaned pair that has it.
ArrayIndexKey(c) ==
  CASE c.t = "number" /\ c.n >= 0 -> c.n
    [] c.t = "string" /\ c.s \in DOMAIN NumericStrings -> NumericStrings[c.s]
    [] OTHER -> -1

FirstOccurrences(clean) ==
  {k \in DOMAIN clean : \A j \in 1..(k - 1) : String(clean[j].x) # String(clean[k].x)}

KeyBefore(clean, a, b) ==
  LET ia == ArrayIndexKey(clean[a].x)
      ib == ArrayIndexKey(clean[b].x)
  IN IF ia >= 0 /\ ib >= 0 THEN ia < ib
     ELSE IF ia >= 0 THEN TRUE
     ELSE IF ib >= 0 THEN FALSE
     ELSE a < b

ObjectKeys(clean) ==
  LET F == FirstOccurrences(clean)
  IN [i \in 1..Cardinality(F) |->
        CHOOSE k \in F : Cardinality({j \in F : j # k /\ KeyBefore(clean, j, k)}) = i - 1]

RECURSIVE SumFor(_, _, _)
\* acc[key] = (acc[key] || 0) + item.y over the first n cleaned pairs
SumFor(clean, key, n) ==
  IF n = 0 THEN 0
  ELSE SumFor(clean, key, n - 1)
       + (IF String(clean[n].x) = key THEN clean[n].y.n ELSE 0)

aggregatedData(clean) ==
  LET keys == ObjectKeys(clean)
  IN [labels |-> [i \in DOMAIN keys |-> Str(String(clean[keys[i]].x))],
      data |-> [i \in DOMAIN keys |-> Num(SumFor(clean, String(clean[keys[i]].x), Len(clean)))]]

\* ------------------------------------------------------- synthesis results
MsgMissing == "Missing required fields"
MsgNotFound == "File not found or access denied"
MsgChartNotFound == "Chart not found or access denied"
MsgNotEnough == "File does not contain enough data"
MsgNoRows == "File contains no valid data rows"
MsgNoColumns == "Selected columns not found in file"
MsgNoPoints == "No valid data points found with selected columns"
MsgCreateError == "Server error during chart creation"

LogNotEnough == "Not enough data rows"
LogNoRows == "No valid data rows"
LogNoColumns == "Need at least one categorical and one numeric column"
LogNoPoints == "No valid data points after cleaning"
LogParseError == "Excel parse error"
LogExisting == "chart already exists"
LogNotExcel == "not an Excel file"
LogCreated == "Created chart"

NoConfig == [labels |-> <<>>, data |-> <<>>]

Skip(reason) == [ok |-> FALSE, reason |-> reason, config |-> NoConfig, title |-> NoTitle]

\* a check that fails only when both columns are absent
ColumnMissingBoth(xIdx, yIdx) == xIdx = 0 /\ yIdx = 0

\* xIdx === -1 || yIdx === -1
ColumnMissing(xIdx, yIdx) == xIdx = 0 \/ yIdx = 0

\* charts.js autogen: one file, from the parsed sheet to the chart configuration
SynthAuto(originalName, json) ==
  IF NotEnoughData(json) THEN Skip(LogNotEnough)
  ELSE
    LET headers == json[1]
        rows == DataRows(json)
    IN IF Len(rows) = 0 THEN Skip(LogNoRows)
       ELSE
         LET analysis == columnAnalysis(headers, rows)
             categoricalColumns == ColumnsOfType(analysis, "categorical")
             numericColumns == ColumnsOfType(analysis, "numeric")
         IN IF categoricalColumns = {} \/ numericColumns = {} THEN Skip(LogNoColumns)
            ELSE
              LET xColumn == First(categoricalColumns)
                  yColumn == First(numericColumns)
                  clean == cleanData(rows, xColumn, yColumn, AUTO_CAP)
              IN IF NoValidDataPoints(clean) THEN Skip(LogNoPoints)
                 ELSE [ok |-> TRUE, reason |-> LogCreated,
                       config |-> PlainConfig(clean),
                       title |-> <<originalName, String(headers[yColumn]), "by", String(headers[xColumn])>>]

Aggregated(chartType) == chartType \in {"pie", "doughnut"}

\* charts.js manual creation: from the parsed sheet to the chart configuration
SynthManual(json, chartType, xColumn, yColumn) ==
  IF NotEnoughData(json) THEN Skip(MsgNotEnough)
  ELSE
    LET headers == json[1]
        rows == DataRows(json)
    IN IF Len(rows) = 0 THEN Skip(MsgNoRows)
       ELSE
         LET xIdx == IndexOf(headers, xColumn)
             yIdx == IndexOf(headers, yColumn)
         IN IF ColumnMissing(xIdx, yIdx) THEN Skip(MsgNoColumns)
            ELSE
              LET clean == cleanData(rows, xIdx, yIdx, MANUAL_CAP)
              IN IF NoValidDataPoints(clean) THEN Skip(MsgNoPoints)
                 ELSE [ok |-> TRUE, reason |-> "Chart created",
                       config |-> IF Aggregated(chartType) THEN aggregatedData(clean)
                                  ELSE PlainConfig(clean),
                       title |-> NoTitle]

\* files.js upload: the columns whose cell in the first data row is a number
numericIndices(headers, rows) ==
  {i \in DOMAIN headers : At(rows[1], i).t = "number"}

\* a loop over two chart types only
UploadChartTypesNoPie == <<"bar", "line">>

\* const chartTypes = ['bar', 'line', 'pie']
UploadChartTypes == <<"bar", "line", "pie">>

\* files.js upload: labels and data are the raw cells of the two columns
SynthUpload(originalName, json, chartType) ==
  LET headers == json[1]
      rows == Tail(json)
      idx == numericIndices(headers, rows)
      xIdx == First(idx)
      yIdx == First(idx \ {xIdx})
  IN [ok |-> TRUE, reason |-> LogCreated,
      config |-> [labels |-> [k \in DOMAIN rows |-> At(rows[k], xIdx)],
                  data |-> [k \in DOMAIN rows |-> At(rows[k], yIdx)]],
      title |-> <<originalName, String(headers[yIdx]), "vs", String(headers[xIdx]), chartType>>]

\* files.js upload: json.length >= 2 and at least two numeric columns
\* (rows[0] is read only when json.slice(1) has a first row)
UploadGenerates(json) ==
  /\ ~NotEnoughData(json)
  /\ Tail(json) # <<>>
  /\ Cardinality(numericIndices(json[1], Tail(json))) >= 2

\* ------------------------------------------------------------------- state
VARIABLES
  File,       \* the File collection: a set of File documents
  Chart,      \* the Chart collection: a set of Chart documents
  uploads,    \* backend/uploads: path -> the document stored there, and whether the bytes still exist
  reqs,       \* the bag of requests being handled, each with its position and locals
  nextFile,   \* the next File _id (and stored filename) to be generated
  nextChart,  \* the next Chart _id to be generated
  started,    \* the number of requests received so far
  faults,     \* the number of database / filesystem errors so far
  modal       \* the state of the create-chart dialog of the browser

vars == <<File, Chart, uploads, reqs, nextFile, nextChart, started, faults, modal>>

\* `Auto-generated ${chartType} chart from ${file.originalName}`
AutoDescription(chartType, originalName) == <<"Auto-generated", chartType, "chart from", originalName>>
\* req.body.description
UserDescription == <<"described by the user">>

NoBody == [title |-> "", chartType |-> "", sourceFile |-> 0, xColumn |-> "", yColumn |-> ""]
NoRes == [status |-> 0, message |-> "", created |-> -1, details |-> <<>>, columns |-> <<>>]

\* a request; the fields are the locals of its handler:
\*   file     the File _id the request is about (upload: the new file; autogen: the file in the loop)
\*   chart    the Chart _id the request is about
\*   files    autogen: the result of File.find
\*   todo     autogen: the files still to visit; upload: the chart types still to visit
\*   pending  the chart document built by new Chart(...) and not saved yet
\*   created  autogen: createdCharts
\*   saved    the _id and title of the charts this request has inserted (history)
\*   overlapped  whether another generation run of the same user was in progress
\*            at some moment of this one (history)
\*   log      autogen: the outcome of each file visited (history of the console log)
\*   count    download: the downloadCount of the document read by findById;
\*            file delete: the deletedCount of deleteMany (history)
\* the dialog before it is shown: the useState initial values, files the prop
NoModal ==
  [open |-> FALSE, user |-> "", files |-> <<>>, sourceFile |-> 0, columns |-> <<>>,
   xColumn |-> "", yColumn |-> "", loadingCols |-> FALSE, error |-> ""]

NoReq ==
  [kind |-> "none", user |-> "", pc |-> "idle", file |-> 0, chart |-> 0,
   body |-> NoBody, files |-> <<>>, todo |-> <<>>, pending |-> <<>>, created |-> <<>>,
   saved |-> <<>>, log |-> <<>>, count |-> 0, overlapped |-> FALSE, rerun |-> FALSE,
   res |-> NoRes]

\* A request that has responded stays in the bag, at pc "done", for the one
\* state in which its response is sent; its locals are gone after that.
InFlight ==
  LET live == {r \in BagToSet(reqs) : r.pc # "done"}
  IN [r \in live |-> reqs[r]]

\* the handler of request r runs up to its next await and becomes r2
Step(r, r2) == reqs' = (InFlight (-) SetToBag({r})) (+) SetToBag({r2})

Handling(r, kind, pc) == r \in DOMAIN InFlight /\ r.kind = kind /\ r.pc = pc

\* res.status(status).json({message})
Respond(r, status, message) ==
  [r EXCEPT !.pc = "done", !.todo = <<>>, !.pending = <<>>,
            !.res = [NoRes EXCEPT !.status = status, !.message = message]]

\* a database or filesystem call either succeeds or throws
Outcome(ok) ==
  /\ ok \/ faults < MaxFaults
  /\ faults' = IF ok THEN faults ELSE faults + 1

\* a generation run: the upload handler's loop, or an autogen request
GenerationRun(r) == r.kind \in {"upload", "autogen"}
Overlaps(r, q) == GenerationRun(r) /\ GenerationRun(q) /\ r.user = q.user /\ r.pc # "done"

\* the requests in progress, those that overlap the new request r marked
MarkOverlaps(r) ==
  LET mark(q) == IF Overlaps(r, q) THEN [q EXCEPT !.overlapped = TRUE] ELSE q
      marked == {mark(q) : q \in DOMAIN InFlight}
      copies(m) == LET from == {q \in DOMAIN InFlight : mark(q) = m}
                       one == CHOOSE q \in from : TRUE
                   IN IF Cardinality(from) = 1 THEN InFlight[one]
                      ELSE InFlight[one] + InFlight[CHOOSE q \in from : q # one]
  IN [m \in marked |-> copies(m)]

Receive(r) ==
  /\ BagCardinality(InFlight) < MaxInFlight
  /\ started < MaxRequests
  /\ started' = started + 1
  /\ reqs' = MarkOverlaps(r)
              (+) SetToBag({[r EXCEPT !.overlapped = \E q \in DOMAIN InFlight : Overlaps(r, q)]})

findById(coll, id) == {d \in coll : d._id = id}

\* a check of existence only
DeniedFileUnowned(found, user) == found = {}

\* !doc || doc.owner.toString() !== req.user._id.toString()
DeniedFile(found, user) == found = {} \/ \E f \in found : f.uploadedBy # user
DeniedChart(found, user) == found = {} \/ \E c \in found : c.createdBy # user

\* XLSX.readFile(path) throws when the bytes are gone or are not a workbook
Readable(path) == uploads[path].exists /\ ~Documents[uploads[path].doc].corrupt
Json(path) == Documents[uploads[path].doc].json

Init ==
  /\ File = {}
  /\ Chart = {}
  /\ uploads = [p \in 1..MaxFiles |-> [doc |-> 0, exists |-> FALSE]]
  /\ reqs = EmptyBag
  /\ nextFile = 1
  /\ nextChart = 1
  /\ started = 0
  /\ faults = 0
  /\ modal = NoModal

\* ------------------------------------------------- POST /api/files/upload
NewFile(id, user, d) ==
  [_id |-> id, originalName |-> Documents[d].originalName, mimetype |-> Documents[d].mimetype,
   path |-> id, uploadedBy |-> user, status |-> "uploading", downloadCount |-> 0]

\* new Chart({...}); the _id is numbered when the document is inserted.
\* Two fields are history, not part of chartSchema: by, the handler that
\* inserted the chart, and overlapped, whether that run overlapped another.
NewChart(user, file, chartType, description, title, config) ==
  [_id |-> 0, title |-> title, description |-> description, chartType |-> chartType,
   chartConfig |-> config, sourceFile |-> file, createdBy |-> user, sharedWith |-> <<>>,
   by |-> "none", overlapped |-> FALSE]

\* the insert of chart.save() by request r
Inserted(r) ==
  [r.pending[1] EXCEPT !._id = nextChart, !.by = r.kind, !.overlapped = r.overlapped]

\* what the request has inserted
Saved(r) == Append(r.saved, [title |-> r.pending[1].title, id |-> nextChart])

MsgUploaded == "File uploaded successfully"

\* multer has stored the bytes (or there is no file); new File(...)
StartUpload(u, d) ==
  /\ IF d = 0
       THEN /\ Receive(Respond([NoReq EXCEPT !.kind = "upload", !.user = u], 400, "No file uploaded"))
            /\ UNCHANGED <<uploads, nextFile>>
       ELSE /\ nextFile <= MaxFiles
            /\ Receive([NoReq EXCEPT !.kind = "upload", !.user = u, !.pc = "fileSave",
                                         !.file = nextFile])
            /\ uploads' = [uploads EXCEPT ![nextFile] = [doc |-> d, exists |-> TRUE]]
            /\ nextFile' = nextFile + 1
  /\ UNCHANGED <<modal, File, Chart, nextChart, faults>>

\* a loop head that sends the response before the first findOne
UploadNextEarly(r, types) ==
  IF types = <<>> THEN Respond(r, 201, MsgUploaded)
  ELSE [r EXCEPT !.pc = "chartFind", !.todo = types, !.pending = <<>>,
                 !.res = [NoRes EXCEPT !.status = 201, !.message = MsgUploaded]]

\* the loop head of "for (const chartType of chartTypes)": done, or the next findOne
UploadNext(r, types) ==
  IF types = <<>> THEN Respond(r, 201, MsgUploaded)
  ELSE [r EXCEPT !.pc = "chartFind", !.todo = types, !.pending = <<>>]

\* await file.save(); then read the sheet and decide whether to generate
UploadFileSave(r) ==
  /\ Handling(r, "upload", "fileSave")
  /\ \E ok \in BOOLEAN :
       /\ Outcome(ok)
       /\ IF ~ok
            THEN /\ Step(r, Respond(r, 500, "Server error during file upload"))
                 /\ UNCHANGED File
            ELSE /\ File' = File \cup {NewFile(r.file, r.user, uploads[r.file].doc)}
                 /\ Step(r,
                      IF Readable(r.file) /\ UploadGenerates(Json(r.file))
                        THEN UploadNext(r, UploadChartTypes)
                        ELSE Respond(r, 201, MsgUploaded))
  /\ UNCHANGED <<modal, Chart, uploads, nextFile, nextChart, started>>

\* Chart.findOne({ sourceFile, createdBy, chartType })
UploadExisting(c, file, user, chartType) ==
  c.sourceFile = file /\ c.createdBy = user /\ c.chartType = chartType

UploadChartFind(r) ==
  LET chartType == Head(r.todo)
      originalName == Documents[uploads[r.file].doc].originalName
      synth == SynthUpload(originalName, Json(r.file), chartType)
  IN
  /\ Handling(r, "upload", "chartFind")
  /\ \E ok \in BOOLEAN :
       /\ Outcome(ok)
       /\ IF ~ok
            THEN /\ Step(r, Respond(r, 201, MsgUploaded))
            ELSE IF \E c \in Chart : UploadExisting(c, r.file, r.user, chartType)
              THEN /\ Step(r, UploadNext(r, Tail(r.todo)))
              ELSE /\ Step(r,
                        [r EXCEPT !.pc = "chartSave",
                                  !.pending = <<NewChart(r.user, r.file, chartType,
                                                         AutoDescription(chartType, originalName),
                                                         synth.title, synth.config)>>])
  /\ UNCHANGED <<modal, File, Chart, uploads, nextFile, nextChart, started>>

\* a chart.save() whose failure reaches the outer catch
UploadChartSaveFailing(r) ==
  /\ Handling(r, "upload", "chartSave")
  /\ \E ok \in BOOLEAN :
       /\ Outcome(ok)
       /\ IF ~ok
            THEN /\ Step(r, Respond(r, 500, "Server error during file upload"))
                 /\ UNCHANGED <<Chart, nextChart>>
            ELSE /\ Chart' = Chart \cup {Inserted(r)}
                 /\ nextChart' = nextChart + 1
                 /\ Step(r,
                      UploadNext([r EXCEPT !.saved = Saved(r)], Tail(r.todo)))
  /\ UNCHANGED <<modal, File, uploads, nextFile, started>>

\* await chart.save()
UploadChartSave(r) ==
  /\ Handling(r, "upload", "chartSave")
  /\ \E ok \in BOOLEAN :
       /\ Outcome(ok)
       /\ IF ~ok
            THEN /\ Step(r, Respond(r, 201, MsgUploaded))
                 /\ UNCHANGED <<Chart, nextChart>>
            ELSE /\ Chart' = Chart \cup {Inserted(r)}
                 /\ nextChart' = nextChart + 1
                 /\ Step(r,
                      UploadNext([r EXCEPT !.saved = Saved(r)], Tail(r.todo)))
  /\ UNCHANGED <<modal, File, uploads, nextFile, started>>

\* ----------------------------------------------------- DELETE /api/files/:id
MsgFileDeleted == "File deleted successfully"
MsgFileDeleteError == "Server error during file deletion"

StartDeleteFile(u, id) ==
  /\ Receive([NoReq EXCEPT !.kind = "deleteFile", !.user = u, !.pc = "findById", !.file = id])
  /\ UNCHANGED <<modal, File, Chart, uploads, nextFile, nextChart, faults>>

\* a handler that goes on to the record without unlinking the bytes
DeleteFileFindKeepBytes(r) ==
  /\ Handling(r, "deleteFile", "findById")
  /\ \E ok \in BOOLEAN :
       /\ Outcome(ok)
       /\ Step(r, IF ~ok THEN Respond(r, 500, MsgFileDeleteError)
                  ELSE IF DeniedFile(findById(File, r.file), r.user) THEN Respond(r, 404, MsgNotFound)
                  ELSE [r EXCEPT !.pc = "deleteRecord"])
  /\ UNCHANGED <<modal, File, Chart, uploads, nextFile, nextChart, started>>

\* await File.findById; the ownership check; fs.existsSync / fs.unlinkSync
DeleteFileFind(r) ==
  LET found == findById(File, r.file)
  IN
  /\ Handling(r, "deleteFile", "findById")
  /\ \E ok \in BOOLEAN :
       /\ Outcome(ok)
       /\ IF ~ok
            THEN /\ Step(r, Respond(r, 500, MsgFileDeleteError))
                 /\ UNCHANGED uploads
            ELSE IF DeniedFile(found, r.user)
              THEN /\ Step(r, Respond(r, 404, MsgNotFound))
                   /\ UNCHANGED uploads
              ELSE /\ uploads' = [uploads EXCEPT ![r.file].exists = FALSE]
                   /\ Step(r, [r EXCEPT !.pc = "deleteRecord"])
  /\ UNCHANGED <<modal, File, Chart, nextFile, nextChart, started>>

\* await File.findByIdAndDelete(req.params.id)
DeleteFileRecord(r) ==
  /\ Handling(r, "deleteFile", "deleteRecord")
  /\ \E ok \in BOOLEAN :
       /\ Outcome(ok)
       /\ IF ~ok
            THEN /\ Step(r, Respond(r, 500, MsgFileDeleteError))
                 /\ UNCHANGED File
            ELSE /\ File' = File \ findById(File, r.file)
                 /\ Step(r, [r EXCEPT !.pc = "deleteCharts"])
  /\ UNCHANGED <<modal, Chart, uploads, nextFile, nextChart, started>>

\* a deleteMany whose filter matches every chart
DeleteManyAll(c, id) == TRUE

\* Chart.deleteMany({ sourceFile: req.params.id })
DeleteManyFilter(c, id) == c.sourceFile = id

DeleteFileCharts(r) ==
  /\ Handling(r, "deleteFile", "deleteCharts")
  /\ \E ok \in BOOLEAN :
       /\ Outcome(ok)
       /\ IF ~ok
            THEN /\ Step(r, Respond(r, 500, MsgFileDeleteError))
                 /\ UNCHANGED Chart
            ELSE /\ Chart' = {c \in Chart : ~DeleteManyFilter(c, r.file)}
                 /\ Step(r, Respond([r EXCEPT !.count = Cardinality({c \in Chart : DeleteManyFilter(c, r.file)})],
                                     200, MsgFileDeleted))
  /\ UNCHANGED <<modal, File, uploads, nextFile, nextChart, started>>

\* ------------------------------------------------- POST /api/charts/autogen
MsgAutogen == "Auto-generated charts"
MsgAutogenError == "Server error during chart auto-generation"

RECURSIVE SortById(_)
\* the documents of a query result, in insertion (_id) order
SortById(S) ==
  IF S = {} THEN <<>>
  ELSE LET d == CHOOSE x \in S : \A y \in S : x._id <= y._id
       IN <<d>> \o SortById(S \ {d})

StartAutogen(u) ==
  /\ Receive([NoReq EXCEPT !.kind = "autogen", !.user = u, !.pc = "findFiles"])
  /\ UNCHANGED <<modal, File, Chart, uploads, nextFile, nextChart, faults>>

\* the same request sent again as soon as an autogen request of the user has
\* been answered 201; rerun is history, it marks the request as such a second run
StartAutogenAgain(u) ==
  /\ \E d \in DOMAIN reqs : d.pc = "done" /\ d.kind = "autogen" /\ d.user = u /\ d.res.status = 201
  /\ Receive([NoReq EXCEPT !.kind = "autogen", !.user = u, !.pc = "findFiles", !.rerun = TRUE])
  /\ UNCHANGED <<modal, File, Chart, uploads, nextFile, nextChart, faults>>

\* FilesPage handleView: the charts fetched hold none for the file, the user
\* confirms, and the page posts to /api/charts/autogen; sourceFile of the body
\* records the file the user was viewing, the request itself carries no file
HandleView(u, fileId) ==
  /\ \E f \in File : f._id = fileId /\ f.uploadedBy = u
  /\ ~\E c \in Chart : c.createdBy = u /\ c.sourceFile = fileId
  /\ Receive([NoReq EXCEPT !.kind = "autogen", !.user = u, !.pc = "findFiles",
                           !.body = [NoBody EXCEPT !.sourceFile = fileId]])
  /\ UNCHANGED <<modal, File, Chart, uploads, nextFile, nextChart, faults>>

\* res.status(201).json({ message, created: createdCharts.length, details })
AutogenRespond(r) ==
  [r EXCEPT !.pc = "done", !.todo = <<>>, !.pending = <<>>,
            !.res = [NoRes EXCEPT !.status = 201, !.message = MsgAutogen,
                                  !.created = Len(r.created), !.details = r.created]]

\* the loop head of "for (const file of files)": respond, or the next findOne
AutogenNext(r, rest) ==
  IF rest = <<>> THEN AutogenRespond(r)
  ELSE [r EXCEPT !.pc = "check", !.todo = rest, !.pending = <<>>, !.file = Head(rest)._id]

Logged(r, file, outcome) == [r EXCEPT !.log = Append(@, [file |-> file, outcome |-> outcome])]

\* await File.find({ uploadedBy: req.user._id })
AutogenFindFiles(r) ==
  LET files == SortById({f \in File : f.uploadedBy = r.user})
  IN
  /\ Handling(r, "autogen", "findFiles")
  /\ \E ok \in BOOLEAN :
       /\ Outcome(ok)
       /\ Step(r,
            IF ~ok THEN Respond(r, 500, MsgAutogenError)
            ELSE AutogenNext([r EXCEPT !.files = files], files))
  /\ UNCHANGED <<modal, File, Chart, uploads, nextFile, nextChart, started>>

\* a findOne that never finds a chart
AutogenNeverExisting(c, file, user) == FALSE

\* a findOne that looks for a line chart only
AutogenExistingLine(c, file, user) ==
  c.sourceFile = file /\ c.createdBy = user /\ c.chartType = "line"

\* Chart.findOne({ sourceFile: file._id, createdBy: req.user._id })
AutogenExisting(c, file, user) == c.sourceFile = file /\ c.createdBy = user

\* file.mimetype.includes('excel') || file.mimetype.includes('spreadsheetml')
IsExcel(mimetype) == mimetype \in {XLS_MIME, XLSX_MIME}

\* the existence check of one file and, inside the try, the synthesis up to new Chart(...)
AutogenCheck(r) ==
  LET file == Head(r.todo)
      synth == SynthAuto(file.originalName, Json(file.path))
  IN
  /\ Handling(r, "autogen", "check")
  /\ \E ok \in BOOLEAN :
       /\ Outcome(ok)
       /\ IF ~ok
            THEN /\ Step(r, Respond(r, 500, MsgAutogenError))
            ELSE IF \E c \in Chart : AutogenExisting(c, file._id, r.user)
              THEN /\ Step(r, AutogenNext(Logged(r, file._id, LogExisting), Tail(r.todo)))
            ELSE IF ~IsExcel(file.mimetype)
              THEN /\ Step(r, AutogenNext(Logged(r, file._id, LogNotExcel), Tail(r.todo)))
            ELSE IF ~Readable(file.path)
              THEN /\ Step(r, AutogenNext(Logged(r, file._id, LogParseError), Tail(r.todo)))
            ELSE IF ~synth.ok
              THEN /\ Step(r, AutogenNext(Logged(r, file._id, synth.reason), Tail(r.todo)))
              ELSE /\ Step(r,
                        [r EXCEPT !.pc = "save",
                                  !.pending = <<NewChart(r.user, file._id, "bar",
                                                         AutoDescription("bar", file.originalName),
                                                         synth.title, synth.config)>>])
  /\ UNCHANGED <<modal, File, Chart, uploads, nextFile, nextChart, started>>

\* a save that looks for a chart of the file again and inserts only if there is none
AutogenSaveRechecked(r) ==
  /\ Handling(r, "autogen", "save")
  /\ \E ok \in BOOLEAN :
       /\ Outcome(ok)
       /\ IF ~ok \/ \E c \in Chart : AutogenExisting(c, r.file, r.user)
            THEN /\ Step(r,
                      AutogenNext(Logged(r, r.file, IF ok THEN LogExisting ELSE LogParseError),
                                  Tail(r.todo)))
                 /\ UNCHANGED <<Chart, nextChart>>
            ELSE /\ Chart' = Chart \cup {Inserted(r)}
                 /\ nextChart' = nextChart + 1
                 /\ Step(r,
                      AutogenNext(Logged([r EXCEPT !.saved = Saved(r),
                                                   !.created = Append(@, [title |-> r.pending[1].title, id |-> nextChart])],
                                         r.file, LogCreated),
                                  Tail(r.todo)))
  /\ UNCHANGED <<modal, File, uploads, nextFile, started>>

\* await chart.save(); createdCharts.push(chart); a throw is caught inside the loop
AutogenSave(r) ==
  LET chart == r.pending[1]
  IN
  /\ Handling(r, "autogen", "save")
  /\ \E ok \in BOOLEAN :
       /\ Outcome(ok)
       /\ IF ~ok
            THEN /\ Step(r,
                      AutogenNext(Logged(r, r.file, LogParseError), Tail(r.todo)))
                 /\ UNCHANGED <<Chart, nextChart>>
            ELSE /\ Chart' = Chart \cup {Inserted(r)}
                 /\ nextChart' = nextChart + 1
                 /\ Step(r,
                      AutogenNext(Logged([r EXCEPT !.saved = Saved(r),
                                                   !.created = Append(@, [title |-> chart.title, id |-> nextChart])],
                                         r.file, LogCreated),
                                  Tail(r.todo)))
  /\ UNCHANGED <<modal, File, uploads, nextFile, started>>

\* --------------------------------------------------------- POST /api/charts
\* the request bodies tried: {title, chartType, sourceFile, xColumn, yColumn}
Bodies ==
  { [title |-> "T", chartType |-> "bar", xColumn |-> "City", yColumn |-> "Sales"],
    [title |-> "T", chartType |-> "pie", xColumn |-> "City", yColumn |-> "Sales"],
    [title |-> "T", chartType |-> "doughnut", xColumn |-> "X", yColumn |-> "Y"],
    [title |-> "T", chartType |-> "bar", xColumn |-> "A", yColumn |-> "B"],
    [title |-> "T", chartType |-> "bar", xColumn |-> "Nope", yColumn |-> "Sales"],
    [title |-> "T", chartType |-> "line", xColumn |-> "City", yColumn |-> "Nope"],
    [title |-> "T", chartType |-> "gauge", xColumn |-> "City", yColumn |-> "Sales"],
    [title |-> "", chartType |-> "bar", xColumn |-> "City", yColumn |-> "Sales"],
    [title |-> "T", chartType |-> "bar", xColumn |-> "", yColumn |-> "Sales"] }

\* the enum of chartSchema.chartType, checked by validation on save
ChartTypeEnum ==
  {"bar", "line", "pie", "doughnut", "scatter", "area", "column", "histogram",
   "bubble", "radar", "polar", "funnel", "waterfall", "heatmap", "treemap"}

\* !title || !chartType || !sourceFile || !xColumn || !yColumn
MissingFields(body) ==
  body.title = "" \/ body.chartType = "" \/ body.sourceFile = 0 \/ body.xColumn = "" \/ body.yColumn = ""

StartCreateChart(u, b, sourceFile) ==
  LET body == [title |-> b.title, chartType |-> b.chartType, sourceFile |-> sourceFile,
               xColumn |-> b.xColumn, yColumn |-> b.yColumn]
      r == [NoReq EXCEPT !.kind = "createChart", !.user = u, !.pc = "findById",
                         !.file = sourceFile, !.body = body]
  IN
  /\ Receive(IF MissingFields(body) THEN Respond(r, 400, MsgMissing) ELSE r)
  /\ UNCHANGED <<modal, File, Chart, uploads, nextFile, nextChart, faults>>

\* await File.findById(sourceFile); the ownership check; the synthesis up to new Chart(...)
CreateChartFind(r) ==
  LET found == findById(File, r.body.sourceFile)
      synth == SynthManual(Json(r.body.sourceFile), r.body.chartType, r.body.xColumn, r.body.yColumn)
  IN
  /\ Handling(r, "createChart", "findById")
  /\ \E ok \in BOOLEAN :
       /\ Outcome(ok)
       /\ IF ~ok
            THEN /\ Step(r, Respond(r, 500, MsgCreateError))
            ELSE IF DeniedFile(found, r.user)
              THEN /\ Step(r, Respond(r, 404, MsgNotFound))
            ELSE IF ~Readable(r.body.sourceFile)
              THEN /\ Step(r, Respond(r, 500, MsgCreateError))
            ELSE IF ~synth.ok
              THEN /\ Step(r, Respond(r, 400, synth.reason))
              ELSE /\ Step(r,
                        [r EXCEPT !.pc = "save",
                                  !.pending = <<NewChart(r.user, r.body.sourceFile,
                                                         r.body.chartType, UserDescription,
                                                         <<r.body.title>>, synth.config)>>])
  /\ UNCHANGED <<modal, File, Chart, uploads, nextFile, nextChart, started>>

\* a save that inserts the document before it validates it
CreateChartSaveUnvalidated(r) ==
  /\ Handling(r, "createChart", "save")
  /\ \E ok \in BOOLEAN :
       /\ Outcome(ok)
       /\ Chart' = Chart \cup {Inserted(r)}
       /\ nextChart' = nextChart + 1
       /\ Step(r,
            IF ~ok \/ r.pending[1].chartType \notin ChartTypeEnum
              THEN Respond(r, 500, MsgCreateError)
              ELSE Respond([r EXCEPT !.saved = Saved(r), !.chart = nextChart],
                           201, "Chart created"))
  /\ UNCHANGED <<modal, File, uploads, nextFile, started>>

\* await chart.save(): validation of the enum, then the insert
CreateChartSave(r) ==
  LET chart == r.pending[1]
  IN
  /\ Handling(r, "createChart", "save")
  /\ \E ok \in BOOLEAN :
       /\ Outcome(ok)
       /\ IF ~ok \/ chart.chartType \notin ChartTypeEnum
            THEN /\ Step(r, Respond(r, 500, MsgCreateError))
                 /\ UNCHANGED <<Chart, nextChart>>
            ELSE /\ Chart' = Chart \cup {Inserted(r)}
                 /\ nextChart' = nextChart + 1
                 /\ Step(r,
                      Respond([r EXCEPT !.saved = Saved(r), !.chart = nextChart],
                              201, "Chart created"))
  /\ UNCHANGED <<modal, File, uploads, nextFile, started>>

\* ---------------------------------------------------- DELETE /api/charts/:id
StartDeleteChart(u, id) ==
  /\ Receive([NoReq EXCEPT !.kind = "deleteChart", !.user = u, !.pc = "findById", !.chart = id])
  /\ UNCHANGED <<modal, File, Chart, uploads, nextFile, nextChart, faults>>

DeleteChartFind(r) ==
  LET found == findById(Chart, r.chart)
  IN
  /\ Handling(r, "deleteChart", "findById")
  /\ \E ok \in BOOLEAN :
       /\ Outcome(ok)
       /\ Step(r,
            IF ~ok THEN Respond(r, 500, "Server error during chart deletion")
            ELSE IF DeniedChart(found, r.user) THEN Respond(r, 404, MsgChartNotFound)
            ELSE [r EXCEPT !.pc = "delete"])
  /\ UNCHANGED <<modal, File, Chart, uploads, nextFile, nextChart, started>>

\* await Chart.findByIdAndDelete(req.params.id)
DeleteChartDelete(r) ==
  /\ Handling(r, "deleteChart", "delete")
  /\ \E ok \in BOOLEAN :
       /\ Outcome(ok)
       /\ IF ~ok
            THEN /\ Step(r, Respond(r, 500, "Server error during chart deletion"))
                 /\ UNCHANGED Chart
            ELSE /\ Chart' = Chart \ findById(Chart, r.chart)
                 /\ Step(r, Respond(r, 200, "Chart deleted successfully"))
  /\ UNCHANGED <<modal, File, uploads, nextFile, nextChart, started>>

\* ------------------------------------------------ GET /api/files/:id/download
StartDownload(u, id) ==
  /\ Receive([NoReq EXCEPT !.kind = "download", !.user = u, !.pc = "findById", !.file = id])
  /\ UNCHANGED <<modal, File, Chart, uploads, nextFile, nextChart, faults>>

\* await File.findById; the ownership check; res.download starts
DownloadFind(r) ==
  LET found == findById(File, r.file)
  IN
  /\ Handling(r, "download", "findById")
  /\ \E ok \in BOOLEAN :
       /\ Outcome(ok)
       /\ Step(r,
            IF ~ok THEN Respond(r, 500, "Server error during file download")
            ELSE IF DeniedFile(found, r.user) THEN Respond(r, 404, MsgNotFound)
            ELSE [r EXCEPT !.pc = "send", !.count = (CHOOSE f \in found : TRUE).downloadCount])
  /\ UNCHANGED <<modal, File, Chart, uploads, nextFile, nextChart, started>>

\* the callback of res.download: an error, or the bytes have been sent
DownloadSend(r) ==
  /\ Handling(r, "download", "send")
  /\ \E ok \in BOOLEAN :
       /\ Outcome(ok)
       /\ Step(r,
            IF ~ok \/ ~uploads[r.file].exists THEN Respond(r, 500, "File download failed")
            ELSE [r EXCEPT !.pc = "increment", !.res = [NoRes EXCEPT !.status = 200]])
  /\ UNCHANGED <<modal, File, Chart, uploads, nextFile, nextChart, started>>

\* file.incrementDownloadCount(): this.downloadCount += 1 on the document read
\* by findById, then save(), which writes that value; a throw is caught
incrementDownloadCount(f, count) == [f EXCEPT !.downloadCount = count + 1]

DownloadIncrement(r) ==
  LET found == findById(File, r.file)
  IN
  /\ Handling(r, "download", "increment")
  /\ \E ok \in BOOLEAN :
       /\ Outcome(ok)
       /\ File' = IF ~ok THEN File
                  ELSE (File \ found) \cup {incrementDownloadCount(f, r.count) : f \in found}
       /\ Step(r, [r EXCEPT !.pc = "done"])
  /\ UNCHANGED <<modal, Chart, uploads, nextFile, nextChart, started>>

\* ------------------------------------------ chartSchema.methods (models/Chart.js)
Permissions == {"view", "edit"}

\* a shareWith that always pushes a new entry
shareWithPush(c, userId, permissions, now) ==
  [c EXCEPT !.sharedWith = Append(@, [user |-> userId, permissions |-> permissions, sharedAt |-> now])]

\* this.sharedWith.find(share => share.user.toString() === userId.toString()),
\* then the entry found is written in place, or a new entry is pushed
shareWith(c, userId, permissions, now) ==
  LET existing == {i \in DOMAIN c.sharedWith : c.sharedWith[i].user = userId}
  IN IF existing # {}
       THEN [c EXCEPT !.sharedWith[First(existing)] =
                         [@ EXCEPT !.permissions = permissions, !.sharedAt = now]]
       ELSE [c EXCEPT !.sharedWith =
                         Append(@, [user |-> userId, permissions |-> permissions, sharedAt |-> now])]

\* this.sharedWith.filter(share => share.user.toString() !== userId.toString())
unshareWith(c, userId) ==
  [c EXCEPT !.sharedWith = SelectSeq(@, LAMBDA share : share.user # userId)]

\* a call of the method on the chart with this id, then this.save(); the number
\* of calls so far, counted in started, stands for new Date()
ShareWith(id, userId, permissions) ==
  /\ started < MaxRequests
  /\ started' = started + 1
  /\ \E c \in findById(Chart, id), ok \in BOOLEAN :
       /\ Outcome(ok)
       /\ Chart' = IF ok THEN (Chart \ {c}) \cup {shareWith(c, userId, permissions, started')}
                   ELSE Chart
  /\ UNCHANGED <<modal, File, uploads, reqs, nextFile, nextChart>>

UnshareWith(id, userId) ==
  /\ started < MaxRequests
  /\ started' = started + 1
  /\ \E c \in findById(Chart, id), ok \in BOOLEAN :
       /\ Outcome(ok)
       /\ Chart' = IF ok THEN (Chart \ {c}) \cup {unshareWith(c, userId)} ELSE Chart
  /\ UNCHANGED <<modal, File, uploads, reqs, nextFile, nextChart>>

\* ------------------------------------------------- GET /api/files/:id/columns
StartColumns(u, id) ==
  /\ Receive([NoReq EXCEPT !.kind = "columns", !.user = u, !.pc = "findById", !.file = id])
  /\ UNCHANGED <<modal, File, Chart, uploads, nextFile, nextChart, faults>>

\* json.length < 1 ? [] : json[0]
Headers(json) == IF Len(json) < 1 THEN <<>> ELSE json[1]

ColumnsFind(r) ==
  LET found == findById(File, r.file)
  IN
  /\ Handling(r, "columns", "findById")
  /\ \E ok \in BOOLEAN :
       /\ Outcome(ok)
       /\ Step(r,
            IF ~ok THEN Respond(r, 500, "Failed to get columns")
            ELSE IF DeniedFile(found, r.user) THEN Respond(r, 404, MsgNotFound)
            ELSE IF ~Readable(r.file) THEN Respond(r, 500, "Failed to get columns")
            ELSE [Respond(r, 200, "") EXCEPT !.res.columns = Headers(Json(r.file))])
  /\ UNCHANGED <<modal, File, Chart, uploads, nextFile, nextChart, started>>

\* ----------------------------------------------- GET /api/charts/:id/download
StartChartDownload(u, id) ==
  /\ Receive([NoReq EXCEPT !.kind = "chartDownload", !.user = u, !.pc = "findById", !.chart = id])
  /\ UNCHANGED <<modal, File, Chart, uploads, nextFile, nextChart, faults>>

ChartDownloadFind(r) ==
  LET found == findById(Chart, r.chart)
  IN
  /\ Handling(r, "chartDownload", "findById")
  /\ \E ok \in BOOLEAN :
       /\ Outcome(ok)
       /\ Step(r,
            IF ~ok THEN Respond(r, 500, "Server error during chart download")
            ELSE IF DeniedChart(found, r.user) THEN Respond(r, 404, MsgChartNotFound)
            ELSE Respond(r, 200, ""))
  /\ UNCHANGED <<modal, File, Chart, uploads, nextFile, nextChart, started>>

\* ------------------------------------------------------------ specifications
\* the ids a client can name: those of the documents that exist, and one that does not
ExistingFiles == {f._id : f \in File}
ExistingCharts == {c._id : c \in Chart}
KnownFiles == ExistingFiles \cup {nextFile}
KnownCharts == ExistingCharts \cup {nextChart}

\* the documents and bodies by their place in the lists above
DocNamed(name) == CHOOSE d \in DocIds : Documents[d].originalName = name
Sales == DocNamed("sales.xlsx")
Points == DocNamed("points.xlsx")
Mixed == DocNamed("mixed.xlsx")
CoreDocs == {Sales, Points}
Corrupt == DocNamed("corrupt.xls")
ViewDocs == CoreDocs \cup {Corrupt}
SheetDocs == {d \in DocIds : \E i \in DOMAIN SheetDocuments : Documents[d] = SheetDocuments[i]}
ColumnDocs == {d \in DocIds : Documents[d].originalName = "column.xlsx"}
Wide == DocNamed("wide.xlsx")
DataDocs == DocIds \ (SheetDocs \cup ColumnDocs \cup {Wide})
CoreBodies == {b \in Bodies : b.title = "T" /\ b.chartType = "bar" /\ b.xColumn = "City" /\ b.yColumn = "Sales"}

\* Spec: the five writing handlers, two users, requests interleaved at every await
Next ==
  \/ \E u \in Users, d \in CoreDocs \cup {0} : StartUpload(u, d)
  \/ \E r \in DOMAIN InFlight : UploadFileSave(r)
  \/ \E r \in DOMAIN InFlight : UploadChartFind(r)
  \/ \E r \in DOMAIN InFlight : UploadChartSave(r)
  \/ \E u \in Users : StartAutogen(u)
  \/ \E r \in DOMAIN InFlight : AutogenFindFiles(r)
  \/ \E r \in DOMAIN InFlight : AutogenCheck(r)
  \/ \E r \in DOMAIN InFlight : AutogenSave(r)
  \/ \E u \in Users, b \in CoreBodies, f \in KnownFiles : StartCreateChart(u, b, f)
  \/ \E r \in DOMAIN InFlight : CreateChartFind(r)
  \/ \E r \in DOMAIN InFlight : CreateChartSave(r)
  \/ \E u \in Users, f \in KnownFiles : StartDeleteFile(u, f)
  \/ \E r \in DOMAIN InFlight : DeleteFileFind(r)
  \/ \E r \in DOMAIN InFlight : DeleteFileRecord(r)
  \/ \E r \in DOMAIN InFlight : DeleteFileCharts(r)
  \/ \E u \in Users, c \in KnownCharts : StartDeleteChart(u, c)
  \/ \E r \in DOMAIN InFlight : DeleteChartFind(r)
  \/ \E r \in DOMAIN InFlight : DeleteChartDelete(r)

Spec == Init /\ [][Next]_vars

\* no request is being handled
Idle == DOMAIN InFlight = {}

\* SpecData: one user, every document and every body, the three creation
\* paths, one request at a time
NextData ==
  \/ \E d \in DataDocs : Idle /\ StartUpload("u1", d)
  \/ \E r \in DOMAIN InFlight : UploadFileSave(r)
  \/ \E r \in DOMAIN InFlight : UploadChartFind(r)
  \/ \E r \in DOMAIN InFlight : UploadChartSave(r)
  \/ Idle /\ StartAutogen("u1")
  \/ \E r \in DOMAIN InFlight : AutogenFindFiles(r)
  \/ \E r \in DOMAIN InFlight : AutogenCheck(r)
  \/ \E r \in DOMAIN InFlight : AutogenSave(r)
  \/ \E b \in Bodies, f \in KnownFiles : Idle /\ StartCreateChart("u1", b, f)
  \/ \E r \in DOMAIN InFlight : CreateChartFind(r)
  \/ \E r \in DOMAIN InFlight : CreateChartSave(r)

SpecData == Init /\ [][NextData]_vars

Owner == "u1"
\* the owner sends one request at a time, the other user at any time
Turn(u) == u = Owner => \A r \in DOMAIN InFlight : r.user # Owner

\* SpecAccess: every handler that takes an id, on the files of u1 and their charts
NextAccess ==
  \/ Turn("u1") /\ StartUpload("u1", Points)
  \/ \E r \in DOMAIN InFlight : UploadFileSave(r)
  \/ \E r \in DOMAIN InFlight : UploadChartFind(r)
  \/ \E r \in DOMAIN InFlight : UploadChartSave(r)
  \/ \E u \in Users, b \in Bodies, f \in ExistingFiles :
        Turn(u) /\ b.title = "T" /\ b.xColumn = "X" /\ StartCreateChart(u, b, f)
  \/ \E r \in DOMAIN InFlight : CreateChartFind(r)
  \/ \E r \in DOMAIN InFlight : CreateChartSave(r)
  \/ \E u \in Users, f \in ExistingFiles : Turn(u) /\ StartDeleteFile(u, f)
  \/ \E r \in DOMAIN InFlight : DeleteFileFind(r)
  \/ \E r \in DOMAIN InFlight : DeleteFileRecord(r)
  \/ \E r \in DOMAIN InFlight : DeleteFileCharts(r)
  \/ \E u \in Users, c \in ExistingCharts : Turn(u) /\ StartDeleteChart(u, c)
  \/ \E r \in DOMAIN InFlight : DeleteChartFind(r)
  \/ \E r \in DOMAIN InFlight : DeleteChartDelete(r)
  \/ \E u \in Users, f \in ExistingFiles : Turn(u) /\ StartDownload(u, f)
  \/ \E r \in DOMAIN InFlight : DownloadFind(r)
  \/ \E r \in DOMAIN InFlight : DownloadSend(r)
  \/ \E r \in DOMAIN InFlight : DownloadIncrement(r)
  \/ \E u \in Users, f \in ExistingFiles : Turn(u) /\ StartColumns(u, f)
  \/ \E r \in DOMAIN InFlight : ColumnsFind(r)
  \/ \E u \in Users, c \in ExistingCharts : Turn(u) /\ StartChartDownload(u, c)
  \/ \E r \in DOMAIN InFlight : ChartDownloadFind(r)

SpecAccess == Init /\ [][NextAccess]_vars

\* SpecGen: one user, uploads and auto-generation requests, interleaved at every await
NextGen ==
  \/ \E d \in {Sales, Mixed} : StartUpload("u1", d)
  \/ \E r \in DOMAIN InFlight : UploadFileSave(r)
  \/ \E r \in DOMAIN InFlight : UploadChartFind(r)
  \/ \E r \in DOMAIN InFlight : UploadChartSave(r)
  \/ StartAutogen("u1")
  \/ \E r \in DOMAIN InFlight : AutogenFindFiles(r)
  \/ \E r \in DOMAIN InFlight : AutogenCheck(r)
  \/ \E r \in DOMAIN InFlight : AutogenSave(r)

SpecGen == Init /\ [][NextGen]_vars

\* SpecRace: one user, uploads of sales.xlsx one at a time, auto-generation
\* requests interleaved at every await
NextRace ==
  \/ Idle /\ StartUpload("u1", Sales)
  \/ \E r \in DOMAIN InFlight : UploadFileSave(r)
  \/ StartAutogen("u1")
  \/ \E r \in DOMAIN InFlight : AutogenFindFiles(r)
  \/ \E r \in DOMAIN InFlight : AutogenCheck(r)
  \/ \E r \in DOMAIN InFlight : AutogenSave(r)

SpecRace == Init /\ [][NextRace]_vars

\* SpecColumns: one user uploads one of the column sheets and asks for
\* auto-generation, one request at a time
NextColumns ==
  \/ \E d \in ColumnDocs : Idle /\ nextFile = 1 /\ StartUpload("u1", d)
  \/ \E r \in DOMAIN InFlight : UploadFileSave(r)
  \/ Idle /\ StartAutogen("u1")
  \/ \E r \in DOMAIN InFlight : AutogenFindFiles(r)
  \/ \E r \in DOMAIN InFlight : AutogenCheck(r)
  \/ \E r \in DOMAIN InFlight : AutogenSave(r)

SpecColumns == Init /\ [][NextColumns]_vars

\* SpecView: one user uploads sheets, views files on the Files page and runs
\* auto-generation, one request at a time
NextView ==
  \/ \E d \in ViewDocs : Idle /\ StartUpload("u1", d)
  \/ \E r \in DOMAIN InFlight : UploadFileSave(r)
  \/ \E r \in DOMAIN InFlight : UploadChartFind(r)
  \/ \E r \in DOMAIN InFlight : UploadChartSave(r)
  \/ \E id \in ExistingFiles : Idle /\ HandleView("u1", id)
  \/ Idle /\ StartAutogen("u1")
  \/ Idle /\ StartAutogenAgain("u1")
  \/ \E r \in DOMAIN InFlight : AutogenFindFiles(r)
  \/ \E r \in DOMAIN InFlight : AutogenCheck(r)
  \/ \E r \in DOMAIN InFlight : AutogenSave(r)

SpecView == Init /\ [][NextView]_vars

\* SpecUpload: one user uploads the short sheets, one request at a time
NextUpload ==
  \/ \E d \in DataDocs \cup {Wide} : Idle /\ StartUpload("u1", d)
  \/ \E r \in DOMAIN InFlight : UploadFileSave(r)
  \/ \E r \in DOMAIN InFlight : UploadChartFind(r)
  \/ \E r \in DOMAIN InFlight : UploadChartSave(r)

SpecUpload == Init /\ [][NextUpload]_vars

\* SpecDownload: one user uploads sales.xlsx and downloads the files, the
\* downloads interleaved at every await and callback
NextDownload ==
  \/ Idle /\ StartUpload("u1", Sales)
  \/ \E r \in DOMAIN InFlight : UploadFileSave(r)
  \/ \E f \in KnownFiles : StartDownload("u1", f)
  \/ \E r \in DOMAIN InFlight : DownloadFind(r)
  \/ \E r \in DOMAIN InFlight : DownloadSend(r)
  \/ \E r \in DOMAIN InFlight : DownloadIncrement(r)

SpecDownload == Init /\ [][NextDownload]_vars

\* ------------------------------- CreateChartModal.tsx, shown by ChartsPage.tsx
\* GET /api/files/list: File.find({uploadedBy}).sort({createdAt: -1})
FilesList(u) ==
  SelectSeq([i \in 1..(nextFile - 1) |-> nextFile - i],
            LAMBDA id : \E f \in File : f._id = id /\ f.uploadedBy = u)

\* the responses sent and not yet received by the browser
Sent(kind) == {d \in DOMAIN reqs : d.pc = "done" /\ d.kind = kind}
Delivered == Sent("columns") = {} /\ Sent("createChart") = {}

\* fetchColumns(fileId) up to its await: the four resets, then the GET
fetchColumns(m, fileId) ==
  /\ modal' = [m EXCEPT !.loadingCols = TRUE, !.columns = <<>>, !.xColumn = "",
                        !.yColumn = "", !.error = ""]
  /\ Receive([NoReq EXCEPT !.kind = "columns", !.user = m.user, !.pc = "findById",
                           !.file = fileId])
  /\ UNCHANGED <<File, Chart, uploads, nextFile, nextChart, faults>>

\* showCreateModal: the component mounts with sourceFile = files[0]._id and
\* its effect fetches the columns of that file
OpenModal(u) ==
  LET files == FilesList(u)
  IN /\ ~modal.open
     /\ files # <<>>
     /\ fetchColumns([NoModal EXCEPT !.open = TRUE, !.user = u, !.files = files,
                                     !.sourceFile = files[1]], files[1])

\* onChange of the source file select; the effect runs when sourceFile changed
SetSourceFile(fileId) ==
  /\ modal.open
  /\ \E i \in DOMAIN modal.files : modal.files[i] = fileId
  /\ fileId # modal.sourceFile
  /\ fetchColumns([modal EXCEPT !.sourceFile = fileId], fileId)

\* fetchColumns after its await: res.ok ? setColumns(data.columns || []) :
\* setError(...); finally setLoadingCols(false)
FetchColumnsResolve(d) ==
  /\ d \in Sent("columns")
  /\ modal.open
  /\ modal' = IF d.res.status = 200
                THEN [modal EXCEPT !.columns = d.res.columns, !.loadingCols = FALSE]
                ELSE [modal EXCEPT !.error = "Failed to fetch columns", !.loadingCols = FALSE]
  /\ reqs' = InFlight
  /\ UNCHANGED <<File, Chart, uploads, nextFile, nextChart, started, faults>>

\* <option key={col} value={col}>
Options(columns) == {String(columns[i]) : i \in DOMAIN columns}
\* disabled={loadingCols || columns.length === 0}
ColumnSelectEnabled == modal.open /\ ~modal.loadingCols /\ modal.columns # <<>>

SetXColumn(col) ==
  /\ ColumnSelectEnabled
  /\ col \in Options(modal.columns)
  /\ col # modal.xColumn
  /\ modal' = [modal EXCEPT !.xColumn = col]
  /\ UNCHANGED <<File, Chart, uploads, reqs, nextFile, nextChart, started, faults>>

SetYColumn(col) ==
  /\ ColumnSelectEnabled
  /\ col \in Options(modal.columns)
  /\ col # modal.yColumn
  /\ modal' = [modal EXCEPT !.yColumn = col]
  /\ UNCHANGED <<File, Chart, uploads, reqs, nextFile, nextChart, started, faults>>

\* handleSubmit, with the title typed and the chart type left at bar; onCreate
\* posts the data to /api/charts
HandleSubmit ==
  /\ modal.open
  /\ IF modal.sourceFile = 0 \/ modal.xColumn = "" \/ modal.yColumn = ""
       THEN /\ modal.error # "Please fill all required fields"
            /\ modal' = [modal EXCEPT !.error = "Please fill all required fields"]
            /\ UNCHANGED <<File, Chart, uploads, reqs, nextFile, nextChart, started, faults>>
       ELSE StartCreateChart(modal.user,
                             [title |-> "T", chartType |-> "bar",
                              xColumn |-> modal.xColumn, yColumn |-> modal.yColumn],
                             modal.sourceFile)

\* onCreate after its await: res.ok ? setShowCreateModal(false) : setError(...)
\* of the page
OnCreateResolve(d) ==
  /\ d \in Sent("createChart")
  /\ modal' = IF d.res.status = 201 THEN NoModal ELSE modal
  /\ reqs' = InFlight
  /\ UNCHANGED <<File, Chart, uploads, nextFile, nextChart, started, faults>>

\* SpecModal: u1 has uploaded two workbooks and opens the dialog. A response
\* is received before anything else happens; the requests are handled in
\* any order.
ModalDocs == {Sales, Points, Mixed}

InitModal ==
  \E d1, d2 \in ModalDocs :
    /\ File = {NewFile(1, "u1", d1), NewFile(2, "u1", d2)}
    /\ Chart = {}
    /\ uploads = [p \in 1..MaxFiles |-> IF p = 1 THEN [doc |-> d1, exists |-> TRUE]
                                        ELSE IF p = 2 THEN [doc |-> d2, exists |-> TRUE]
                                        ELSE [doc |-> 0, exists |-> FALSE]]
    /\ reqs = EmptyBag
    /\ nextFile = 3
    /\ nextChart = 1
    /\ started = 0
    /\ faults = 0
    /\ modal = NoModal

NextModal ==
  \/ Delivered /\ OpenModal("u1")
  \/ \E f \in ExistingFiles : Delivered /\ SetSourceFile(f)
  \/ \E r \in DOMAIN InFlight : Delivered /\ ColumnsFind(r)
  \/ \E d \in DOMAIN reqs : FetchColumnsResolve(d)
  \/ \E c \in Options(modal.columns) : Delivered /\ SetXColumn(c)
  \/ \E c \in Options(modal.columns) : Delivered /\ SetYColumn(c)
  \/ Delivered /\ HandleSubmit
  \/ \E r \in DOMAIN InFlight : Delivered /\ CreateChartFind(r)
  \/ \E r \in DOMAIN InFlight : Delivered /\ CreateChartSave(r)
  \/ \E d \in DOMAIN reqs : OnCreateResolve(d)

SpecModal == InitModal /\ [][NextModal]_vars

\* SpecShare: the share methods called on a chart. The first state is the one
\* after u1 has uploaded sales.xlsx and the autogen action has given it its
\* bar chart, with no request in progress and the counters of calls at zero.
InitShare ==
  LET synth == SynthAuto("sales.xlsx", Documents[Sales].json)
      chart == NewChart("u1", 1, "bar", AutoDescription("bar", "sales.xlsx"), synth.title, synth.config)
  IN /\ File = {NewFile(1, "u1", Sales)}
     /\ Chart = {[chart EXCEPT !._id = 1, !.by = "autogen"]}
     /\ uploads = [p \in 1..MaxFiles |-> IF p = 1 THEN [doc |-> Sales, exists |-> TRUE]
                                         ELSE [doc |-> 0, exists |-> FALSE]]
     /\ reqs = EmptyBag
     /\ nextFile = 2
     /\ nextChart = 2
     /\ started = 0
     /\ faults = 0
     /\ modal = NoModal

NextShare ==
  \/ \E id \in ExistingCharts, u \in Users, p \in Permissions : ShareWith(id, u, p)
  \/ \E id \in ExistingCharts, u \in Users : UnshareWith(id, u)

SpecShare == InitShare /\ [][NextShare]_vars

\* SpecSheets: one user, the long sheets, the three creation paths, one
\* request at a time
SheetBodies ==
  {b \in Bodies : b.title = "T" /\ b.xColumn = "City" /\ b.yColumn = "Sales"
                  /\ b.chartType \in {"bar", "pie"}}

NextSheets ==
  \/ \E d \in SheetDocs : Idle /\ StartUpload("u1", d)
  \/ \E r \in DOMAIN InFlight : UploadFileSave(r)
  \/ \E r \in DOMAIN InFlight : UploadChartFind(r)
  \/ \E r \in DOMAIN InFlight : UploadChartSave(r)
  \/ Idle /\ StartAutogen("u1")
  \/ \E r \in DOMAIN InFlight : AutogenFindFiles(r)
  \/ \E r \in DOMAIN InFlight : AutogenCheck(r)
  \/ \E r \in DOMAIN InFlight : AutogenSave(r)
  \/ \E b \in SheetBodies, f \in ExistingFiles : Idle /\ StartCreateChart("u1", b, f)
  \/ \E r \in DOMAIN InFlight : CreateChartFind(r)
  \/ \E r \in DOMAIN InFlight : CreateChartSave(r)

SpecSheets == Init /\ [][NextSheets]_vars

\* ------------------------------------------------------------------ claims
Copies(r, B) == IF r \in DOMAIN B THEN B[r] ELSE 0

\* this step is a step of the handler of request r
StepOf(r) == started' = started /\ r \in DOMAIN InFlight /\ Copies(r, reqs') < Copies(r, InFlight)

\* the requests answered in this step (at most one), and the ones answered in this state
Answered == {d \in DOMAIN reqs' : d.pc = "done"}
Done == {d \in DOMAIN reqs : d.pc = "done"}

\* C1: no step of a file delete touches a chart of another file, and the step
\* in which a file delete answers 200 leaves no chart of the deleted file.
C1_DeleteCascade ==
  [][\A r \in DOMAIN InFlight : StepOf(r) /\ r.kind = "deleteFile" =>
        /\ {c \in Chart' : c.sourceFile # r.file} = {c \in Chart : c.sourceFile # r.file}
        /\ \A d \in Answered : d.res.status = 200 => ~\E c \in Chart' : c.sourceFile = r.file]_vars

\* a file delete has answered 200 after removing charts, and charts of another file are there
C1_Witness ==
  \E d \in Done : /\ d.kind = "deleteFile" /\ d.res.status = 200 /\ d.count > 0
                   /\ \E c \in Chart : c.sourceFile # d.file

\* a file delete has removed the File record and has not removed the charts yet
Cascading(id) ==
  \E r \in DOMAIN InFlight : r.kind = "deleteFile" /\ r.pc = "deleteCharts" /\ r.file = id

\* C2: in every state, every persisted chart's sourceFile is an existing File
\* whose uploadedBy is the chart's createdBy.  Stated in the code's favour:
\* only while no database call has failed, and a file whose delete is
\* between its two writes is let through.
C2_ChartsReferenceOwnedFiles ==
  faults = 0 =>
    \A c \in Chart :
      \/ \E f \in File : f._id = c.sourceFile /\ f.uploadedBy = c.createdBy
      \/ Cascading(c.sourceFile)

\* the charts inserted by the upload handler or by an autogen request
AutoCharts == {c \in Chart : c.by \in {"upload", "autogen"}}

SameTuple(a, b) ==
  a.sourceFile = b.sourceFile /\ a.createdBy = b.createdBy /\ a.chartType = b.chartType

\* C3 as stated: at most one automatically generated chart exists per
\* (file, user, chartType) tuple.
C3_OneAutoChartPerTuple == \A a, b \in AutoCharts : SameTuple(a, b) => a = b

\* C3 amended: two automatically generated charts of the same (file, user,
\* chartType) tuple were both inserted by generation runs that overlapped
\* another generation run of the same user; runs that do not overlap never
\* duplicate a chart.
C3_DuplicatesOnlyFromOverlap ==
  \A a, b \in AutoCharts : SameTuple(a, b) /\ a # b => a.overlapped /\ b.overlapped

\* an autogen request that overlapped no other run has skipped a file because
\* of the chart that an earlier run, which overlapped none either, had inserted
C3_Witness ==
  \E d \in Done, c \in AutoCharts :
    /\ d.kind = "autogen" /\ ~d.overlapped /\ ~c.overlapped
    /\ \E i \in DOMAIN d.log : d.log[i] = [file |-> c.sourceFile, outcome |-> LogExisting]

\* C4: an autogen request that has listed the user's files answers 201 having
\* visited every one of them, whatever goes wrong with a file on the way.
C4_BatchNeverAborts ==
  \A d \in Done : d.kind = "autogen" /\ d.files # <<>> =>
    d.res.status = 201 /\ Len(d.log) = Len(d.files)

\* the count a response reports; a response without the field reports none
Reported(d) == IF d.res.created < 0 THEN 0 ELSE d.res.created

\* C5: whatever the outcome of an autogen request, its response reports exactly
\* the charts it has persisted: their number as created, their id and title as details.
C5_ResponseReportsPersisted ==
  \A d \in Done : d.kind = "autogen" =>
    Reported(d) = Len(d.saved) /\ d.res.details = d.saved

\* C6: an autogen request gives no chart to a file it skipped for its existing
\* chart, and has attempted every listed file that has no chart of the caller.
C6_ChartlessFilesAttempted ==
  \A d \in Done : d.kind = "autogen" =>
    \A i \in DOMAIN d.files :
      LET id == d.files[i]._id
          visits == {j \in DOMAIN d.log : d.log[j].file = id}
          given == {c \in Chart : c.sourceFile = id /\ \E k \in DOMAIN d.saved : d.saved[k].id = c._id}
      IN /\ (\E j \in visits : d.log[j].outcome = LogExisting) => given = {}
         /\ (~\E c \in Chart : AutogenExisting(c, id, d.user)) => visits # {}

\* the request that r has become in this step
After(r) == {q \in DOMAIN reqs' : Copies(q, reqs') > Copies(q, InFlight)}

\* a persisted chart is whole
Complete(c) ==
  /\ c._id > 0 /\ c.title # NoTitle /\ c.chartType \in ChartTypeEnum
  /\ c.chartConfig.labels # <<>> /\ Len(c.chartConfig.labels) = Len(c.chartConfig.data)
  /\ \E f \in 1..MaxFiles : c.sourceFile = f

\* C7: the step in which a manual creation is rejected, with whatever error,
\* leaves the Chart collection as it was, and so does the step in which an
\* autogen request skips a file or aborts; the charts these handlers do
\* insert are whole.
C7_FailedCreationPersistsNothing ==
  [][/\ \A d \in Answered : d.kind = "createChart" /\ d.res.status # 201 =>
           Chart' = Chart /\ d.saved = <<>>
     /\ \A r \in DOMAIN InFlight : StepOf(r) /\ r.kind = "autogen" =>
           \A q \in After(r) :
             \/ Len(q.log) > Len(r.log) /\ q.log[Len(q.log)].outcome # LogCreated
             \/ q.res.status >= 400
             => Chart' = Chart
     /\ \A c \in Chart' \ Chart : c.by \in {"createChart", "autogen"} => Complete(c)]_vars

\* a manual creation has been rejected at chart.save(), its last step, while charts exist
C7_Witness ==
  \E d \in Done : /\ d.kind = "createChart" /\ d.res.status = 500
                   /\ d.body.chartType \notin ChartTypeEnum
                   /\ Chart # {}

\* request r names a file or a chart that exists and belongs to another user
CrossUser(r) ==
  \/ /\ r.kind \in {"createChart", "deleteFile", "download", "columns"}
     /\ \E f \in File : f._id = r.file /\ f.uploadedBy # r.user
  \/ /\ r.kind \in {"deleteChart", "chartDownload"}
     /\ \E c \in Chart : c._id = r.chart /\ c.createdBy # r.user

\* C8: a request on a file or chart of another user is answered with an
\* error by the step that looks the document up, it gets no further, and
\* that step changes no File record, no stored bytes and no Chart record.
C8_CrossUserRejected ==
  [][\A r \in DOMAIN InFlight : CrossUser(r) =>
        /\ r.pc = "findById"
        /\ StepOf(r) =>
              /\ File' = File /\ Chart' = Chart /\ uploads' = uploads
              /\ \A q \in After(r) : q.pc = "done" /\ q.res.status >= 400]_vars

\* the other user's delete of a file of the owner has been answered 404, and
\* the record, the bytes and the charts of the file are there
C8_Witness ==
  \E d \in Done, f \in File :
    /\ d.kind = "deleteFile" /\ d.res.status = 404
    /\ f._id = d.file /\ f.uploadedBy # d.user
    /\ uploads[f.path].exists
    /\ \E c \in Chart : c.sourceFile = f._id

\* a manual creation that has been answered after its fields were accepted and
\* its file was found and parsed
Synthesized(d) ==
  d.kind = "createChart" /\ ~MissingFields(d.body) /\ d.res.status \notin {404, 500}

\* the sheet of the file a manual creation names
SheetOf(d) == Json(d.body.sourceFile)

\* the sheet has a header row, and xColumn or yColumn is not a cell of it
ColumnAbsent(d) ==
  /\ SheetOf(d) # <<>>
  /\ \/ IndexOf(Headers(SheetOf(d)), d.body.xColumn) = 0
     \/ IndexOf(Headers(SheetOf(d)), d.body.yColumn) = 0

\* C9 as stated: a manual creation whose xColumn or yColumn is not in the
\* header row is rejected as column-not-found and creates no chart.
C9_AbsentColumnRejected ==
  \A d \in Done : Synthesized(d) /\ ColumnAbsent(d) =>
    d.res.status = 400 /\ d.res.message = MsgNoColumns /\ d.saved = <<>>

\* C9 amended: such a request creates no chart and is rejected with 400; the
\* rejection is column-not-found when the sheet has two rows or more and a
\* non-empty data row, not-enough-data when it has fewer than two rows, and
\* no-valid-rows when every data row is empty.
C9_AbsentColumnAfterRowChecks ==
  \A d \in Done : Synthesized(d) /\ ColumnAbsent(d) =>
    /\ d.res.status = 400 /\ d.saved = <<>> /\ d.chart = 0
    /\ d.res.message = IF Len(SheetOf(d)) < 2 THEN MsgNotEnough
                       ELSE IF DataRows(SheetOf(d)) = <<>> THEN MsgNoRows
                       ELSE MsgNoColumns

\* a manual creation naming one absent column of a sheet with data rows has
\* been rejected as column-not-found
C9_Witness ==
  \E d \in Done : /\ Synthesized(d) /\ ColumnAbsent(d)
                   /\ IndexOf(Headers(SheetOf(d)), d.body.yColumn) > 0
                   /\ DataRows(SheetOf(d)) # <<>>
                   /\ d.res.message = MsgNoColumns

\* the stored file is a readable sheet of fewer than two rows
Short(path) ==
  /\ path \in DOMAIN uploads /\ uploads[path].doc # 0
  /\ Readable(path) /\ Len(Json(path)) < 2

\* C10: a sheet of fewer than two rows gives no chart on any path: a manual
\* creation from it is rejected as not-enough-data, autogen skips it as
\* not-enough-data, and the upload handler never starts generating from it.
C10_NotEnoughDataEverywhere ==
  /\ \A c \in Chart : ~Short(c.sourceFile)
  /\ \A d \in Done : Synthesized(d) /\ Short(d.body.sourceFile) =>
        d.res.status = 400 /\ d.res.message = MsgNotEnough /\ d.saved = <<>>
  /\ \A r \in DOMAIN reqs : r.kind = "autogen" =>
        \A j \in DOMAIN r.log : Short(r.log[j].file) => r.log[j].outcome = LogNotEnough
  /\ \A r \in DOMAIN reqs : r.kind = "upload" /\ Short(r.file) =>
        r.saved = <<>> /\ r.pc \notin {"chartFind", "chartSave"}

\* a manual creation from an uploaded header-only sheet has been rejected as
\* not-enough-data
C10_Witness ==
  \E d \in Done, f \in File :
    /\ Synthesized(d) /\ d.body.sourceFile = f._id /\ d.res.message = MsgNotEnough
    /\ Len(Json(f.path)) = 1

\* the cleaned pairs of the two columns a manual creation names
CleanedOf(d) ==
  cleanData(DataRows(SheetOf(d)),
            IndexOf(Headers(SheetOf(d)), d.body.xColumn),
            IndexOf(Headers(SheetOf(d)), d.body.yColumn), MANUAL_CAP)

\* a manual creation that got as far as cleaning: enough rows, a data row, both columns
Cleaned(d) ==
  /\ Synthesized(d)
  /\ Len(SheetOf(d)) >= 2 /\ DataRows(SheetOf(d)) # <<>>
  /\ ~ColumnAbsent(d)

\* C11: every persisted chart configuration has at least one data point, and
\* a manual creation whose cleaned list is empty is rejected as
\* no-valid-data-points and persists nothing.
C11_NoEmptyConfiguration ==
  /\ \A c \in Chart : Len(c.chartConfig.labels) >= 1 /\ Len(c.chartConfig.data) >= 1
  /\ \A d \in Done : Cleaned(d) /\ Len(CleanedOf(d)) = 0 =>
        d.res.status = 400 /\ d.res.message = MsgNoPoints /\ d.saved = <<>>
  /\ \A r \in DOMAIN reqs : r.kind = "autogen" =>
        \A j \in DOMAIN r.log :
          r.log[j].outcome = LogCreated =>
            \E c \in Chart : c.sourceFile = r.log[j].file /\ c.chartConfig.data # <<>>

\* a manual creation whose every row has a blank X has been rejected as
\* no-valid-data-points
C11_Witness ==
  \E d \in Done : Cleaned(d) /\ Len(CleanedOf(d)) = 0 /\ d.res.message = MsgNoPoints

\* every cell of every data row of the sheet has a value, so every row is a valid cleaned row
Full(json) ==
  json # <<>> /\ \A k \in DOMAIN json : \A i \in DOMAIN json[1] : NotBlank(At(json[k], i))

\* C12: on a sheet of n valid rows an automatically generated configuration
\* has exactly min(n, 20) data points and a manual one that is not
\* aggregated exactly min(n, 50).
C12_CapsEnforced ==
  \A c \in Chart :
    LET json == Json(c.sourceFile)
        n == Len(json) - 1
        points == Len(c.chartConfig.data)
    IN Full(json) =>
         /\ c.by \in {"upload", "autogen"} => points = Min(n, AUTO_CAP)
         /\ c.by = "createChart" /\ ~Aggregated(c.chartType) => points = Min(n, MANUAL_CAP)

\* one point per distinct label, in order of first appearance, with the sum of its values
ByFirstAppearance(clean) ==
  LET firsts == {k \in DOMAIN clean :
                   \A j \in 1..(k - 1) : String(clean[j].x) # String(clean[k].x)}
      order == [i \in 1..Cardinality(firsts) |->
                  CHOOSE k \in firsts : Cardinality({j \in firsts : j < k}) = i - 1]
      total(k) == SumFor(clean, String(clean[k].x), Len(clean))
  IN [labels |-> [i \in DOMAIN order |-> Str(String(clean[order[i]].x))],
      data |-> [i \in DOMAIN order |-> Num(total(order[i]))]]

\* C13: the configuration of a pie or doughnut chart has one data point per
\* distinct X label of the cleaned pairs, the sum of that label's Y values,
\* with the labels in order of first appearance.
C13_AggregatedInFirstAppearanceOrder ==
  /\ \A c \in Chart : Aggregated(c.chartType) =>
        \A i, j \in DOMAIN c.chartConfig.labels :
          c.chartConfig.labels[i] = c.chartConfig.labels[j] => i = j
  /\ \A d \in Done :
        d.kind = "createChart" /\ d.res.status = 201 /\ Aggregated(d.body.chartType) =>
          \A c \in Chart : c._id = d.chart => c.chartConfig = ByFirstAppearance(CleanedOf(d))

\* the charts an automatic generation made for the file at a path
AutoOf(path, chartType) ==
  {c \in Chart : c.sourceFile = path /\ c.chartType = chartType /\ c.by \in {"upload", "autogen"}}

\* C14: after the upload of the sheet [City, Sales], (NY,100), (LA,200),
\* (NY,50) has been answered, with no storage fault, the file has an
\* automatically generated bar chart, and every such chart has labels
\* [NY, LA, NY] and data [100, 200, 50]: one point per row, in row order,
\* repeated labels not aggregated.
C14_UploadYieldsBarChart ==
  \A d \in Done :
    d.kind = "upload" /\ d.res.status = 201 /\ faults = 0 /\ uploads[d.file].doc = Sales =>
      /\ AutoOf(d.file, "bar") # {}
      /\ \A c \in AutoOf(d.file, "bar") :
            /\ c.chartConfig.labels = <<Str("NY"), Str("LA"), Str("NY")>>
            /\ c.chartConfig.data = <<Num(100), Num(200), Num(50)>>

\* the sheet has a column of each kind, by the classifier of the auto-generate action
Usable(json) ==
  /\ Len(json) >= 2
  /\ \E i, j \in DOMAIN json[1] :
        LET values(k) == SelectSeq([r \in DOMAIN Tail(json) |-> At(Tail(json)[r], k)], NotBlank)
            numbers(k) == Len(SelectSeq(values(k), LAMBDA v : ~Number(v).nan))
        IN /\ values(i) # <<>> /\ numbers(i) <= Len(values(i)) - numbers(i)
           /\ values(j) # <<>> /\ numbers(j) > Len(values(j)) - numbers(j)

\* C15: a file whose sheet has no categorical column or no numeric column has
\* no automatically generated chart, and the autogen action, when it comes to
\* analyse such a sheet (the file has no chart yet and its rows can be read),
\* logs the no-usable-data condition for it.
C15_NoUsableDataNoChart ==
  /\ \A c \in Chart : c.by \in {"upload", "autogen"} => Usable(Json(c.sourceFile))
  /\ \A r \in DOMAIN reqs : r.kind = "autogen" =>
        \A j \in DOMAIN r.log :
          LET json == Json(r.log[j].file)
          IN /\ r.log[j].outcome \notin {LogExisting, LogNotExcel, LogParseError}
             /\ Len(json) >= 2 /\ DataRows(json) # <<>> /\ ~Usable(json)
             => r.log[j].outcome = LogNoColumns

\* C16: the labels of every persisted chart configuration are strings,
\* whichever creation path saved the chart.
C16_LabelsAreStrings ==
  \A c \in Chart : \A i \in DOMAIN c.chartConfig.labels : c.chartConfig.labels[i].t = "string"

\* the requests that run a pipeline
Pipeline(r) == r.kind \in {"upload", "autogen", "createChart"}

\* a pipeline request that has sent its response has finished
Finished == \A r \in DOMAIN reqs : Pipeline(r) /\ r.res.status # 0 => r.pc = "done"

\* C17: an upload, auto-generation or manual creation request responds only
\* as its last step: a step of such a request that writes File or Chart is
\* taken before its response, and once it has responded it takes no step.
C17_NoWriteAfterResponse ==
  [][/\ \A r \in DOMAIN InFlight :
          Pipeline(r) /\ StepOf(r) /\ (File' # File \/ Chart' # Chart) => r.res.status = 0
     /\ Finished']_vars

\* an upload answers 201 in the step that saves the last of its three charts
C17_Witness ==
  \E d \in Done :
    /\ d.kind = "upload" /\ d.res.status = 201 /\ Len(d.saved) = 3
    /\ \A i \in DOMAIN d.saved : \E c \in Chart : c._id = d.saved[i].id

\* C18: once an upload request has read the sheet and answered 201, the
\* status of its file is processing, completed or error, no longer uploading.
C18_StatusMovesOn ==
  \A d \in Done : d.kind = "upload" /\ d.res.status = 201 =>
    \A f \in File : f._id = d.file => f.status \in {"processing", "completed", "error"}

\* C19: the save of an autogen request does not look at Chart again: unless
\* the save itself fails, it adds one bar chart of the file the request had
\* checked, also when another request has given that file a chart since the
\* check. Two autogen charts of one (file, user, chartType) are then reachable.
C19_SaveWithoutRecheck ==
  [][\A r \in DOMAIN InFlight :
       StepOf(r) /\ r.kind = "autogen" /\ r.pc = "save" /\ faults' = faults =>
         \E c \in Chart' \ Chart :
           /\ Chart' = Chart \cup {c}
           /\ c.sourceFile = r.file /\ c.createdBy = r.user /\ c.chartType = "bar"]_vars

\* two different charts of one (file, user, chartType), both saved by autogen requests
C19_Witness ==
  \E a, b \in Chart :
    a # b /\ a.by = "autogen" /\ b.by = "autogen" /\ SameTuple(a, b)

\* the column K of a column sheet
ColumnK(path) == [i \in 1..(Len(Json(path)) - 1) |-> Json(path)[i + 1][1]]

\* the cells by what they are: no value, a value that parses as a number, a
\* string that does not
Valueless(c) == c \in {Undefined, Str("")}
Parses(c) == c \in {Num(1), Str("7"), Str(" ")}
Word(c) == c = Str("x")

Tally(col, P(_)) == Cardinality({i \in DOMAIN col : P(col[i])})

Label(col) ==
  IF \A i \in DOMAIN col : Valueless(col[i]) THEN "empty"
  ELSE IF Tally(col, Parses) > Tally(col, Word) THEN "numeric"
  ELSE "categorical"

YHeader(c) == c.title[2]
XHeader(c) == c.title[4]

\* C21: the X axis of an automatically generated chart, from upload or from
\* the autogen action, is the first categorical column of its sheet and the Y
\* axis the first numeric column, in column order.
C21_FirstCategoricalFirstNumeric ==
  \A c \in AutoCharts :
    LET headers == Json(c.sourceFile)[1]
        rows == DataRows(Json(c.sourceFile))
        categorical == {i \in DOMAIN headers : ColumnType(rows, i) = "categorical"}
        numeric == {i \in DOMAIN headers : ColumnType(rows, i) = "numeric"}
    IN /\ categorical # {} /\ numeric # {}
       /\ XHeader(c) = String(headers[First(categorical)])
       /\ YHeader(c) = String(headers[First(numeric)])

\* a Y cell that does not parse as a number
Unparsable(c) == c \in {Undefined, Str("x")}

\* the rows of a column sheet that cleaning keeps when K is the X column, and
\* when K is the Y column
KeptAsX(path) == SelectSeq(ColumnK(path), LAMBDA c : ~Valueless(c))
KeptAsY(path) == SelectSeq(ColumnK(path), LAMBDA c : ~Unparsable(c))

\* C22: a chart of a column sheet has one point for each row whose X cell is
\* not undefined or blank and whose Y cell parses as a number, and none for
\* any other row.
C22_InvalidRowsDiscarded ==
  \A c \in Chart : c.by = "autogen" /\ uploads[c.sourceFile].doc \in ColumnDocs =>
    /\ XHeader(c) = "K" =>
          c.chartConfig.labels =
            [i \in DOMAIN KeptAsX(c.sourceFile) |-> Str(String(KeptAsX(c.sourceFile)[i]))]
    /\ YHeader(c) = "K" =>
          c.chartConfig.data =
            [i \in DOMAIN KeptAsY(c.sourceFile) |-> Num(Number(KeptAsY(c.sourceFile)[i]).n)]

\* C23: an auto-generation the Files page triggered for a file, answered 201
\* with no storage fault on the way, has created charts for that file only.
C23_ViewedFileOnly ==
  \A d \in Done :
    d.kind = "autogen" /\ d.body.sourceFile # 0 /\ d.res.status = 201 /\ faults = 0 =>
    \A i \in DOMAIN d.saved : \A c \in Chart :
      c._id = d.saved[i].id => c.sourceFile = d.body.sourceFile

\* the File record an upload request has saved is in the collection
FileSaved(r) == \E f \in File : f._id = r.file

\* C24: once an upload has saved its File record, the record stays and the
\* request answers 201, whether the sheet cannot be read, a Chart.findOne or a
\* chart.save() fails, or all charts are saved.
C24_UploadSurvivesGeneration ==
  \A r \in DOMAIN reqs : r.kind = "upload" =>
    /\ r.pc \in {"chartFind", "chartSave"} => FileSaved(r)
    /\ r.pc = "done" /\ FileSaved(r) => r.res.status = 201 /\ r.res.message = MsgUploaded
    /\ r.pc = "done" /\ r.file # 0 /\ r.res.status = 201 => FileSaved(r)

\* an upload answered 201 although a step of its chart generation failed
\* after the first chart was saved
C24_Witness ==
  \E d \in Done :
    /\ d.kind = "upload" /\ d.res.status = 201 /\ FileSaved(d)
    /\ UploadGenerates(Json(d.file)) /\ Len(d.saved) \in {1, 2}

NumberCells(json) == {i \in DOMAIN json[2] : json[2][i].t = "number"}
HeadedNumberCells(json) == {i \in NumberCells(json) : i <= Len(json[1])}

ChartsOf(path) == {c \in Chart : c.sourceFile = path}

\* the charts of the file are a bar, a line and a pie chart, saved in that
\* order, each over the columns x and y of the sheet
ThreeCharts(path, x, y) ==
  LET json == Json(path)
      name == Documents[uploads[path].doc].originalName
  IN /\ Cardinality(ChartsOf(path)) = 3
     /\ \E b, l, p \in ChartsOf(path) :
          /\ b.chartType = "bar" /\ l.chartType = "line" /\ p.chartType = "pie"
          /\ b._id < l._id /\ l._id < p._id
     /\ \A c \in ChartsOf(path) :
          /\ c.by = "upload"
          /\ c.title = <<name, String(json[1][y]), "vs", String(json[1][x]), c.chartType>>
          /\ c.chartConfig.labels = [k \in 1..(Len(json) - 1) |-> At(json[k + 1], x)]
          /\ c.chartConfig.data = [k \in 1..(Len(json) - 1) |-> At(json[k + 1], y)]

\* what an upload answered 201 with no failed operation has left, given the
\* number cells that count
UploadOutcome(d, cells) ==
  IF cells = {} \/ Cardinality(cells) < 2 THEN ChartsOf(d.file) = {}
  ELSE ThreeCharts(d.file, First(cells), First(cells \ {First(cells)}))

BytesWithoutRecord(files, disk, p) == disk[p].exists /\ findById(files, p) = {}

\* C27: a file delete removes the bytes, then the File record, then the
\* charts: the step that removes the record finds the bytes gone and leaves the
\* charts, the step that removes the charts finds the record gone, and no step
\* of a delete leaves bytes on disk without a record that were not so before.
C27_BytesThenRecordThenCharts ==
  [][\A r \in DOMAIN InFlight : StepOf(r) /\ r.kind = "deleteFile" =>
       /\ File' # File => ~uploads[r.file].exists /\ Chart' = Chart
       /\ Chart' # Chart => findById(File, r.file) = {} /\ ~uploads[r.file].exists
       /\ uploads' # uploads => File' = File /\ Chart' = Chart
       /\ \A p \in 1..MaxFiles :
            BytesWithoutRecord(File', uploads', p) => BytesWithoutRecord(File, uploads, p)]_vars

\* a delete that failed at the record has left the record of a file whose bytes are gone
C27_Witness ==
  \E d \in Done :
    /\ d.kind = "deleteFile" /\ d.res.status = 500
    /\ findById(File, d.file) # {} /\ ~uploads[d.file].exists

\* C28: the step that ends a download whose bytes were sent, the save not
\* failing, leaves the file's downloadCount one higher than it was, and no
\* other step of a download changes a File, also when downloads overlap.
C28_EachDownloadCounts ==
  [][\A r \in DOMAIN InFlight : StepOf(r) /\ r.kind = "download" =>
       /\ r.pc = "increment" /\ faults' = faults =>
            \A f \in findById(File, r.file) :
              File' = (File \ {f}) \cup {[f EXCEPT !.downloadCount = f.downloadCount + 1]}
       /\ r.pc # "increment" => File' = File]_vars

\* the entries of a share list that are not of user u, in their order
Others(list, u) == SelectSeq(list, LAMBDA share : share.user # u)

OnePerUser(list) == \A i, j \in DOMAIN list : list[i].user = list[j].user => i = j

\* C29: after every call of shareWith or unshareWith the share list of the
\* chart has at most one entry per user. A call that changes the list is about
\* one user u: the entries of all other users stay as they were and in their
\* order; either u's entry is gone, or u has one entry, at the place of the old
\* one if there was one and at the end if not.
C29_OneEntryPerUser ==
  [][\A c \in Chart, d \in Chart' : c._id = d._id /\ c # d =>
       /\ OnePerUser(d.sharedWith)
       /\ \E u \in Users :
            /\ Others(d.sharedWith, u) = Others(c.sharedWith, u)
            /\ \/ d.sharedWith = Others(c.sharedWith, u)
               \/ \E i \in DOMAIN d.sharedWith :
                    /\ d.sharedWith[i].user = u
                    /\ d.sharedWith[i].permissions \in Permissions
                    /\ IF \E k \in DOMAIN c.sharedWith : c.sharedWith[k].user = u
                         THEN Len(d.sharedWith) = Len(c.sharedWith) /\ c.sharedWith[i].user = u
                         ELSE i = Len(d.sharedWith) /\ Len(d.sharedWith) = Len(c.sharedWith) + 1]_vars

\* a chart shared with two users, the first entry rewritten to edit after the
\* second one was added
C29_Witness ==
  \E c \in Chart :
    /\ Len(c.sharedWith) = 2
    /\ c.sharedWith[1].permissions = "edit"
    /\ c.sharedWith[1].sharedAt > c.sharedWith[2].sharedAt

\* the header cells of a stored workbook, as the strings of the select options
HeaderOptions(fileId) == Options(Headers(Json(fileId)))

\* C30: when no error has occurred and the dialog is not loading columns, the
\* columns it shows are the header row of the selected source file; and the
\* xColumn and yColumn of every creation request are headers of the request's
\* sourceFile.
C30_ColumnsOfSelectedFile ==
  /\ modal.open /\ ~modal.loadingCols /\ modal.error = "" /\ faults = 0 =>
       modal.columns = Headers(Json(modal.sourceFile))
  /\ \A r \in DOMAIN reqs : r.kind = "createChart" /\ faults = 0 =>
       {r.body.xColumn, r.body.yColumn} \subseteq HeaderOptions(r.body.sourceFile)

====
